---- MODULE Spec2Model ----
(***************************************************************************)
(* MobileNet v1 backbone builder (static/ppdet/modeling/backbones/         *)
(* mobilenet.py) as a state machine.  One behaviour is a sequence of       *)
(* invocations of MobileNet.__call__ on one configured object; each        *)
(* statement of __call__ that touches the graph, the block list or a local *)
(* is one action.  A tensor is the index in `graph` of the unit that       *)
(* produced it (0 is the input tensor); every unit records the arguments   *)
(* handed to conv2d / elementwise_add and the shape of its output.         *)
(*                                                                         *)
(* conv_group_scale is a rational <<num, den>>.  Every channel constant of *)
(* the code is a power of two, so the float product n * scale is exact and *)
(* int() of it is the truncated rational product.                          *)
(***************************************************************************)
EXTENDS Integers, Sequences, FiniteSets, TLC

VARIABLES self, mixed_precision, input, graph, out, blocks, i, module11,
          module13, modules, pc, outcome, result, calls, prev_weights

vars == <<self, mixed_precision, input, graph, out, blocks, i, module11,
          module13, modules, pc, outcome, result, calls, prev_weights>>

config == <<self, mixed_precision, input, calls, prev_weights>>

(* ---------------------------------------------------------------- bounds *)
\* scale factors are n/d in lowest terms with 1 <= n <= d <= MaxDen
MaxDen == 4
\* extra_block_filters holds 0 .. MaxPairs channel pairs
MaxPairs == 5
\* number of invocations of the builder on the same object
MaxCalls == 2

(* ----------------------------------------------------------- input sets *)
RECURSIVE Gcd(_, _)
Gcd(a, b) == IF b = 0 THEN a ELSE Gcd(b, a % b)

Scales == {s \in (1..MaxDen) \X (1..MaxDen) : s[1] <= s[2] /\ Gcd(s[1], s[2]) = 1}

NormTypes == {"bn", "sync_bn", "group_norm"}

Prefixes == {"", "yolo_"}

InputSizes == {<<32, 64>>, <<300, 300>>, <<512, 512>>}

default_extra_block_filters == <<<<256, 512>>, <<128, 256>>, <<128, 256>>, <<64, 128>>>>

FilterPair(k) == IF k <= Len(default_extra_block_filters)
                 THEN default_extra_block_filters[k]
                 ELSE <<32, 64>>

FilterLists == {[k \in 1..n |-> FilterPair(k)] : n \in 0..MaxPairs}

(* ------------------------------------------------------ pure operations *)
\* variant of int: rounds to the nearest integer instead of truncating
int_round(n, scale) == (2 * n * scale[1] + scale[2]) \div (2 * scale[2])

\* Python int() of the product n * scale: truncation toward zero
int(n, scale) ==
    LET p == n * scale[1]
    IN  IF p >= 0 THEN p \div scale[2] ELSE -((-p) \div scale[2])

\* str(i + 1) for the loop index of the conv5 stages
str(n) == CASE n = 1 -> "1" [] n = 2 -> "2" [] n = 3 -> "3" [] n = 4 -> "4"
            [] n = 5 -> "5" [] OTHER -> "?"

\* shape <<channels, height, width>> of a tensor handle
Shape(g, t) == IF t = 0 THEN <<3, input[1], input[2]>> ELSE g[t].shape

\* output extent of a convolution along one spatial axis
ConvOut(n, filter_size, stride, padding) ==
    ((n + 2 * padding - filter_size) \div stride) + 1

\* _conv_norm: conv2d without bias, a created per-channel parameter and an
\* elementwise_add whose activation is the literal 'relu'; the act argument
\* is not used by the body
_conv_norm(g, inp, filter_size, num_filters, stride, padding, num_groups, act, use_cudnn, name) ==
    Append(g, [name        |-> name,
               weights     |-> name \o "_weights",
               eleadd_y    |-> "fuse_conv_bn/conv2d_eltwise_y_in/" \o name,
               input       |-> inp,
               filter_size |-> filter_size,
               num_filters |-> num_filters,
               stride      |-> stride,
               padding     |-> padding,
               groups      |-> num_groups,
               use_cudnn   |-> use_cudnn,
               act         |-> "relu",
               shape       |-> <<num_filters,
                                 ConvOut(Shape(g, inp)[2], filter_size, stride, padding),
                                 ConvOut(Shape(g, inp)[3], filter_size, stride, padding)>>])

\* variant of depthwise_separable: the group count is not scaled
depthwise_separable_unscaled_groups(g, inp, num_filters1, num_filters2, num_groups, stride, scale, name) ==
    LET depthwise_conv == _conv_norm(g, inp, 3, int(num_filters1, scale), stride,
                                     1, num_groups, "relu",
                                     mixed_precision, name \o "_dw")
    IN  _conv_norm(depthwise_conv, Len(depthwise_conv), 1,
                   int(num_filters2, scale), 1, 0, 1, "relu", TRUE,
                   name \o "_sep")

depthwise_separable(g, inp, num_filters1, num_filters2, num_groups, stride, scale, name) ==
    LET depthwise_conv == _conv_norm(g, inp, 3, int(num_filters1, scale), stride,
                                     1, int(num_groups, scale), "relu",
                                     mixed_precision, name \o "_dw")
    IN  _conv_norm(depthwise_conv, Len(depthwise_conv), 1,
                   int(num_filters2, scale), 1, 0, 1, "relu", TRUE,
                   name \o "_sep")

\* variant of _extra_block: the stride argument is applied to both convolutions
_extra_block_stride_both(g, inp, num_filters1, num_filters2, num_groups, stride, name) ==
    LET pointwise_conv == _conv_norm(g, inp, 1, num_filters1, stride, 0,
                                     num_groups, "relu6", TRUE, name \o "_extra1")
    IN  _conv_norm(pointwise_conv, Len(pointwise_conv), 3, num_filters2, stride,
                   1, num_groups, "relu6", TRUE, name \o "_extra2")

_extra_block(g, inp, num_filters1, num_filters2, num_groups, stride, name) ==
    LET pointwise_conv == _conv_norm(g, inp, 1, num_filters1, 1, 0, num_groups,
                                     "relu6", TRUE, name \o "_extra1")
    IN  _conv_norm(pointwise_conv, Len(pointwise_conv), 3, num_filters2, 2, 1,
                   num_groups, "relu6", TRUE, name \o "_extra2")

\* names of the convolution weight parameters of a graph, in creation order
Weights(g) == [k \in 1..Len(g) |-> g[k].weights]

(* ------------------------------------------------------------------ Init *)
\* MobileNet.__init__ stores its arguments unchecked; the first call starts
\* on an empty graph
Init ==
    /\ self \in [norm_type           : NormTypes,
                 conv_group_scale    : Scales,
                 with_extra_blocks   : BOOLEAN,
                 extra_block_filters : FilterLists,
                 prefix_name         : Prefixes]
    /\ mixed_precision \in BOOLEAN
    /\ input \in InputSizes
    /\ graph = <<>>
    /\ out = 0
    /\ blocks = <<>>
    /\ i = 0
    /\ module11 = 0
    /\ module13 = 0
    /\ modules = <<>>
    /\ pc = "conv1"
    /\ outcome = "running"
    /\ result = <<>>
    /\ calls = 1
    /\ prev_weights = <<>>

(* --------------------------------------------------------------- actions *)
\* one depthwise_separable statement of __call__: out = depthwise_separable(out, ...)
Stage(at, num_filters1, num_filters2, num_groups, stride, stage, next) ==
    /\ pc = at
    /\ graph' = depthwise_separable(graph, out, num_filters1, num_filters2,
                                    num_groups, stride, self.conv_group_scale,
                                    self.prefix_name \o stage)
    /\ out' = Len(graph')
    /\ pc' = next
    /\ UNCHANGED <<blocks, i, module11, module13, modules, outcome, result>>
    /\ UNCHANGED config

\* variant of Conv1: the normalization kind is validated before building
Conv1_checks_norm ==
    /\ pc = "conv1"
    /\ IF self.norm_type \in {"bn", "sync_bn"}
       THEN /\ graph' = _conv_norm(graph, 0, 3, int(32, self.conv_group_scale),
                                   2, 1, 1, "relu", TRUE,
                                   self.prefix_name \o "conv1")
            /\ out' = Len(graph')
            /\ pc' = "conv2_1"
            /\ UNCHANGED outcome
       ELSE /\ outcome' = "ValueError"
            /\ pc' = "done"
            /\ UNCHANGED <<graph, out>>
    /\ UNCHANGED <<blocks, i, module11, module13, modules, result>>
    /\ UNCHANGED config

Conv1 ==
    /\ pc = "conv1"
    /\ graph' = _conv_norm(graph, 0, 3, int(32, self.conv_group_scale), 2, 1, 1,
                           "relu", TRUE, self.prefix_name \o "conv1")
    /\ out' = Len(graph')
    /\ pc' = "conv2_1"
    /\ UNCHANGED <<blocks, i, module11, module13, modules, outcome, result>>
    /\ UNCHANGED config

Conv2_1 == Stage("conv2_1", 32, 64, 32, 1, "conv2_1", "conv2_2")

Conv2_2 == Stage("conv2_2", 64, 128, 64, 2, "conv2_2", "conv3_1")

Conv3_1 == Stage("conv3_1", 128, 128, 128, 1, "conv3_1", "conv3_2")

Conv3_2 == Stage("conv3_2", 128, 256, 128, 2, "conv3_2", "append8")

\* blocks.append(out) at 1/8
Append8 ==
    /\ pc = "append8"
    /\ blocks' = Append(blocks, out)
    /\ pc' = "conv4_1"
    /\ UNCHANGED <<graph, out, i, module11, module13, modules, outcome, result>>
    /\ UNCHANGED config

Conv4_1 == Stage("conv4_1", 256, 256, 256, 1, "conv4_1", "conv4_2")

\* variant of Conv4_2: the channel arguments of conv4_1 are repeated
Conv4_2_copied == Stage("conv4_2", 256, 256, 256, 2, "conv4_2", "append16")

Conv4_2 == Stage("conv4_2", 256, 512, 256, 2, "conv4_2", "append16")

\* blocks.append(out) at 1/16; the loop over range(5) starts at i = 0
Append16 ==
    /\ pc = "append16"
    /\ blocks' = Append(blocks, out)
    /\ i' = 0
    /\ pc' = "conv5_loop"
    /\ UNCHANGED <<graph, out, module11, module13, modules, outcome, result>>
    /\ UNCHANGED config

\* variant of Conv5Loop: the loop index is left out of the stage name
Conv5Loop_no_index ==
    /\ pc = "conv5_loop"
    /\ i < 5
    /\ graph' = depthwise_separable(graph, out, 512, 512, 512, 1,
                                    self.conv_group_scale,
                                    self.prefix_name \o "conv5_")
    /\ out' = Len(graph')
    /\ i' = i + 1
    /\ UNCHANGED <<blocks, module11, module13, modules, pc, outcome, result>>
    /\ UNCHANGED config

\* one iteration of for i in range(5)
Conv5Loop ==
    /\ pc = "conv5_loop"
    /\ i < 5
    /\ graph' = depthwise_separable(graph, out, 512, 512, 512, 1,
                                    self.conv_group_scale,
                                    self.prefix_name \o "conv5_" \o str(i + 1))
    /\ out' = Len(graph')
    /\ i' = i + 1
    /\ UNCHANGED <<blocks, module11, module13, modules, pc, outcome, result>>
    /\ UNCHANGED config

\* variant of Module11: module11 is the tensor captured at 1/16
Module11_from_blocks ==
    /\ pc = "conv5_loop"
    /\ i = 5
    /\ module11' = blocks[2]
    /\ pc' = "conv5_6"
    /\ UNCHANGED <<graph, out, blocks, i, module13, modules, outcome, result>>
    /\ UNCHANGED config

\* loop exit and module11 = out
Module11 ==
    /\ pc = "conv5_loop"
    /\ i = 5
    /\ module11' = out
    /\ pc' = "conv5_6"
    /\ UNCHANGED <<graph, out, blocks, i, module13, modules, outcome, result>>
    /\ UNCHANGED config

Conv5_6 == Stage("conv5_6", 512, 1024, 512, 2, "conv5_6", "conv6")

Conv6 == Stage("conv6", 1024, 1024, 1024, 1, "conv6", "module13")

\* variant of Module13: the 1/32 tensor is not appended to the block list
Module13_no_append ==
    /\ pc = "module13"
    /\ module13' = out
    /\ pc' = "branch"
    /\ UNCHANGED <<graph, out, blocks, i, module11, modules, outcome, result>>
    /\ UNCHANGED config

\* module13 = out; blocks.append(out) at 1/32
Module13 ==
    /\ pc = "module13"
    /\ module13' = out
    /\ blocks' = Append(blocks, out)
    /\ pc' = "branch"
    /\ UNCHANGED <<graph, out, i, module11, modules, outcome, result>>
    /\ UNCHANGED config

\* if not self.with_extra_blocks: return blocks
ReturnBlocks ==
    /\ pc = "branch"
    /\ ~self.with_extra_blocks
    /\ result' = blocks
    /\ outcome' = "returned"
    /\ pc' = "done"
    /\ UNCHANGED <<graph, out, blocks, i, module11, module13, modules>>
    /\ UNCHANGED config

\* with_extra_blocks: fall through to the extra blocks
EnterExtra ==
    /\ pc = "branch"
    /\ self.with_extra_blocks
    /\ pc' = "extra"
    /\ UNCHANGED <<graph, out, blocks, i, module11, module13, modules, outcome, result>>
    /\ UNCHANGED config

\* variant of ExtraBlock: the length of the pair list is checked before the
\* first extra block is built
ExtraBlock_validate_first ==
    /\ pc = "extra"
    /\ Len(modules) < 4
    /\ LET k == Len(modules) + 1
           num_filters == self.extra_block_filters
           prev == IF k = 1 THEN module13 ELSE modules[k - 1]
       IN  IF Len(num_filters) < 4
           THEN /\ outcome' = "IndexError"
                /\ pc' = "done"
                /\ UNCHANGED <<graph, modules>>
           ELSE /\ graph' = _extra_block(graph, prev, num_filters[k][1],
                                         num_filters[k][2], 1, 2,
                                         self.prefix_name \o "conv7_" \o str(k))
                /\ modules' = Append(modules, Len(graph'))
                /\ UNCHANGED <<outcome, pc>>
    /\ UNCHANGED <<out, blocks, i, module11, module13, result>>
    /\ UNCHANGED config

\* module14 .. module17: the k-th _extra_block statement.  Its arguments
\* num_filters[k-1][0], num_filters[k-1][1] are evaluated before the call, so
\* a short list raises IndexError with nothing added for that block.
ExtraBlock ==
    /\ pc = "extra"
    /\ Len(modules) < 4
    /\ LET k == Len(modules) + 1
           num_filters == self.extra_block_filters
           prev == IF k = 1 THEN module13 ELSE modules[k - 1]
       IN  IF k > Len(num_filters)
           THEN /\ outcome' = "IndexError"
                /\ pc' = "done"
                /\ UNCHANGED <<graph, modules>>
           ELSE /\ graph' = _extra_block(graph, prev, num_filters[k][1],
                                         num_filters[k][2], 1, 2,
                                         self.prefix_name \o "conv7_" \o str(k))
                /\ modules' = Append(modules, Len(graph'))
                /\ UNCHANGED <<outcome, pc>>
    /\ UNCHANGED <<out, blocks, i, module11, module13, result>>
    /\ UNCHANGED config

\* return module11, module13, module14, module15, module16, module17
ReturnModules ==
    /\ pc = "extra"
    /\ Len(modules) = 4
    /\ result' = <<module11, module13>> \o modules
    /\ outcome' = "returned"
    /\ pc' = "done"
    /\ UNCHANGED <<graph, out, blocks, i, module11, module13, modules>>
    /\ UNCHANGED config

\* the builder is invoked again, on a fresh graph, with the same object
Reinvoke ==
    /\ pc = "done"
    /\ calls < MaxCalls
    /\ calls' = calls + 1
    /\ prev_weights' = Weights(graph)
    /\ graph' = <<>>
    /\ out' = 0
    /\ blocks' = <<>>
    /\ i' = 0
    /\ module11' = 0
    /\ module13' = 0
    /\ modules' = <<>>
    /\ pc' = "conv1"
    /\ outcome' = "running"
    /\ result' = <<>>
    /\ UNCHANGED <<self, mixed_precision, input>>

Next ==
    \/ Conv1
    \/ Conv2_1
    \/ Conv2_2
    \/ Conv3_1
    \/ Conv3_2
    \/ Append8
    \/ Conv4_1
    \/ Conv4_2
    \/ Append16
    \/ Conv5Loop
    \/ Module11
    \/ Conv5_6
    \/ Conv6
    \/ Module13
    \/ ReturnBlocks
    \/ EnterExtra
    \/ ExtraBlock
    \/ ReturnModules
    \/ Reinvoke

Spec == Init /\ [][Next]_vars

(* ---------------------------------------------------------------- claims *)
Returned == pc = "done" /\ outcome = "returned"

Channels(t) == Shape(graph, t)[1]

Height(t) == Shape(graph, t)[2]

Width(t) == Shape(graph, t)[3]

CeilDiv(a, b) == (a + b - 1) \div b

\* scale-1 output channels of the stem and of the depthwise / pointwise
\* convolution of each of the 13 depthwise-separable stages, in pipeline order
BaseChannels ==
    <<32,
      32, 64,     64, 128,    128, 128,   128, 256,   256, 256,   256, 512,
      512, 512,   512, 512,   512, 512,   512, 512,   512, 512,
      512, 1024,  1024, 1024>>

\* stage names of all convolution units, in pipeline order
UnitNames ==
    <<"conv1",
      "conv2_1_dw", "conv2_1_sep", "conv2_2_dw", "conv2_2_sep",
      "conv3_1_dw", "conv3_1_sep", "conv3_2_dw", "conv3_2_sep",
      "conv4_1_dw", "conv4_1_sep", "conv4_2_dw", "conv4_2_sep",
      "conv5_1_dw", "conv5_1_sep", "conv5_2_dw", "conv5_2_sep",
      "conv5_3_dw", "conv5_3_sep", "conv5_4_dw", "conv5_4_sep",
      "conv5_5_dw", "conv5_5_sep", "conv5_6_dw", "conv5_6_sep",
      "conv6_dw", "conv6_sep",
      "conv7_1_extra1", "conv7_1_extra2", "conv7_2_extra1", "conv7_2_extra2",
      "conv7_3_extra1", "conv7_3_extra2", "conv7_4_extra1", "conv7_4_extra2">>

BackboneUnits == Len(BaseChannels)

\* C1: a call that returns yields exactly 3 tensors without extra blocks and
\* exactly 6 with them, and every returned tensor was produced strictly later
\* in the pipeline than the one before it.
C1_LengthAndDepthOrder ==
    Returned =>
        /\ Len(result) = IF self.with_extra_blocks THEN 6 ELSE 3
        /\ \A k \in 1..Len(result) : result[k] \in 1..Len(graph)
        /\ \A k \in 1..(Len(result) - 1) : result[k] < result[k + 1]

C1_Witness ==
    /\ Returned
    /\ self.with_extra_blocks
    /\ Len(result) = 6
    /\ self.conv_group_scale = <<1, 3>>
    /\ self.prefix_name = "yolo_"

\* C2: at scale 1 without extra blocks and an input whose sides are multiples
\* of 32, the three returned tensors have 256, 512, 1024 channels and 1/8,
\* 1/16, 1/32 of the input size, with three, four and five stride-2
\* convolutions up to each capture point.
C2_BaseShapes ==
    ( /\ Returned
      /\ self.conv_group_scale = <<1, 1>>
      /\ ~self.with_extra_blocks
      /\ input[1] % 32 = 0
      /\ input[2] % 32 = 0 ) =>
        /\ Len(result) = 3
        /\ [k \in 1..3 |-> Channels(result[k])] = <<256, 512, 1024>>
        /\ [k \in 1..3 |-> Height(result[k]) * 8 * (2 ^ (k - 1))] = <<input[1], input[1], input[1]>>
        /\ [k \in 1..3 |-> Width(result[k]) * 8 * (2 ^ (k - 1))] = <<input[2], input[2], input[2]>>
        /\ \A k \in 1..3 :
              Cardinality({u \in 1..result[k] : graph[u].stride = 2}) = k + 2

C2_Witness ==
    /\ Returned
    /\ self.conv_group_scale = <<1, 1>>
    /\ ~self.with_extra_blocks
    /\ input = <<32, 64>>
    /\ Len(result) = 3
    /\ Height(result[3]) = 1
    /\ Width(result[3]) = 2

\* C3: at scale 1 with extra blocks and the default channel pairs the call
\* returns 6 tensors; the last four have 512, 256, 256, 128 channels, each is
\* built from the preceding returned tensor and has half its size rounded
\* up, i.e. 1/64, 1/128, 1/256, 1/512 of the input rounded up.
C3_ExtraShapes ==
    ( /\ Returned
      /\ self.conv_group_scale = <<1, 1>>
      /\ self.with_extra_blocks
      /\ self.extra_block_filters = default_extra_block_filters ) =>
        /\ Len(result) = 6
        /\ [k \in 1..4 |-> Channels(result[k + 2])] = <<512, 256, 256, 128>>
        /\ Height(result[2]) = CeilDiv(input[1], 32)
        /\ Width(result[2]) = CeilDiv(input[2], 32)
        /\ \A k \in 3..6 :
              /\ graph[graph[result[k]].input].input = result[k - 1]
              /\ Height(result[k]) = CeilDiv(Height(result[k - 1]), 2)
              /\ Width(result[k]) = CeilDiv(Width(result[k - 1]), 2)
              /\ Height(result[k]) = CeilDiv(input[1], 2 ^ (k + 3))
              /\ Width(result[k]) = CeilDiv(input[2], 2 ^ (k + 3))

C3_Witness ==
    /\ Returned
    /\ self.conv_group_scale = <<1, 1>>
    /\ self.with_extra_blocks
    /\ self.extra_block_filters = default_extra_block_filters
    /\ input = <<300, 300>>
    /\ Len(result) = 6
    /\ [k \in 1..6 |-> Height(result[k])] = <<19, 10, 5, 3, 2, 1>>

\* C4: for every scale n/d, the stem and both convolutions of every
\* depthwise-separable stage have the scale-1 channel count times the scale,
\* truncated: q is the channel count iff q*d <= base*n < (q+1)*d; at scale
\* 1/2 this is exactly half the scale-1 count.
C4_ScaledChannels ==
    \A k \in 1..Len(graph) :
        k <= BackboneUnits =>
            LET q == graph[k].num_filters
                n == self.conv_group_scale[1]
                d == self.conv_group_scale[2]
            IN  /\ q * d <= BaseChannels[k] * n
                /\ BaseChannels[k] * n < (q + 1) * d
                /\ (self.conv_group_scale = <<1, 2>>) => (2 * q = BaseChannels[k])

C4_Witness ==
    /\ Len(graph) >= BackboneUnits
    /\ self.conv_group_scale = <<1, 3>>
    /\ graph[1].num_filters = 10
    /\ graph[2].num_filters = 10
    /\ graph[3].num_filters = 21
    /\ graph[27].num_filters = 341

\* C5: within one invocation all convolution weight names are pairwise
\* distinct, each is prefix + stage name + "_weights", and a second invocation
\* of the same object on a fresh graph creates the same sequence of names.
C5_WeightNames ==
    /\ \A j, k \in 1..Len(graph) : j # k => graph[j].weights # graph[k].weights
    /\ \A k \in 1..Len(graph) :
          graph[k].weights = self.prefix_name \o UnitNames[k] \o "_weights"
    /\ (pc = "done" /\ calls > 1) => Weights(graph) = prev_weights

C5_Witness ==
    /\ pc = "done"
    /\ calls = 2
    /\ self.with_extra_blocks
    /\ self.prefix_name = "yolo_"
    /\ Len(graph) = 35
    /\ Len(prev_weights) = 35
    /\ graph[35].weights = "yolo_conv7_4_extra2_weights"

\* C6: both convolution units of every extra block apply relu6, the
\* activation their caller asks for.
C6_ExtraBlocksApplyRelu6 ==
    \A k \in 1..Len(graph) : k > BackboneUnits => graph[k].act = "relu6"

\* C7 as stated: with extra blocks the first two returned tensors are the
\* tensors appended to the block list at 1/16 and at 1/32, followed by the
\* four extra-block outputs.
C7_FirstTwoAreCaptures ==
    (Returned /\ self.with_extra_blocks) =>
        /\ result[1] = blocks[2]
        /\ result[2] = blocks[3]
        /\ SubSeq(result, 3, 6) = modules

\* C7 amended: with extra blocks the first returned tensor is the output of
\* stage conv5_5, a later tensor than the one captured at 1/16 with the same
\* channel count and size; the second is the tensor captured at 1/32; the
\* last four are the outputs of the four extra blocks.
C7_Module11AndCapture ==
    (Returned /\ self.with_extra_blocks) =>
        /\ Len(result) = 6
        /\ graph[result[1]].name = self.prefix_name \o "conv5_5_sep"
        /\ result[1] > blocks[2]
        /\ Shape(graph, result[1]) = Shape(graph, blocks[2])
        /\ result[2] = blocks[3]
        /\ \A k \in 1..4 :
              graph[result[k + 2]].name =
                  self.prefix_name \o "conv7_" \o str(k) \o "_extra2"

C7_Witness ==
    /\ Returned
    /\ self.with_extra_blocks
    /\ result[1] = 23
    /\ blocks = <<9, 13, 27>>
    /\ result[2] = 27

\* C8 as stated: with an unsupported norm_type the call never returns a
\* feature-tensor sequence.
C8_UnsupportedNormFails ==
    (pc = "done" /\ self.norm_type \notin {"bn", "sync_bn"}) =>
        outcome # "returned"

\* C8 amended: norm_type is stored unvalidated and plays no part in graph
\* construction: with an unsupported norm_type and, when extra blocks are
\* requested, at least four channel pairs, the call returns its 3 or 6
\* tensors.
C8_UnsupportedNormReturns ==
    ( /\ pc = "done"
      /\ self.norm_type \notin {"bn", "sync_bn"}
      /\ (self.with_extra_blocks => Len(self.extra_block_filters) >= 4) ) =>
        /\ outcome = "returned"
        /\ Len(result) = IF self.with_extra_blocks THEN 6 ELSE 3

C8_Witness ==
    /\ Returned
    /\ self.norm_type = "group_norm"
    /\ Len(result) = 3
    /\ Len(graph) = BackboneUnits

\* C9: in every depthwise-separable stage the depthwise convolution's group
\* count is the truncated scaled scale-1 count, equals the channel count of
\* the tensor fed into it and its own output channel count; every pointwise
\* convolution has one group.
C9_DepthwiseGroups ==
    \A k \in 2..Len(graph) :
        k <= BackboneUnits =>
            IF k % 2 = 0
            THEN LET n == self.conv_group_scale[1]
                     d == self.conv_group_scale[2]
                 IN  /\ graph[k].groups * d <= BaseChannels[k] * n
                     /\ BaseChannels[k] * n < (graph[k].groups + 1) * d
                     /\ graph[k].groups >= 1
                     /\ graph[k].groups = Channels(graph[k].input)
                     /\ graph[k].groups = graph[k].num_filters
                     /\ graph[k].filter_size = 3
            ELSE /\ graph[k].groups = 1
                 /\ graph[k].filter_size = 1
                 /\ graph[k].input = k - 1

C9_Witness ==
    /\ Len(graph) >= BackboneUnits
    /\ self.conv_group_scale = <<3, 4>>
    /\ graph[26].groups = 768
    /\ Channels(graph[26].input) = 768
    /\ graph[27].groups = 1

\* C10: with extra blocks and k < 4 channel pairs the call builds the stem,
\* the 13 stages and the extra blocks of the k pairs and only then fails,
\* returning nothing; with more than 4 pairs it returns 6 tensors built from
\* the first four pairs.
C10_PairListLength ==
    /\ (pc = "done" /\ self.with_extra_blocks /\ Len(self.extra_block_filters) < 4) =>
          /\ outcome = "IndexError"
          /\ result = <<>>
          /\ Len(graph) = BackboneUnits + 2 * Len(self.extra_block_filters)
          /\ Len(modules) = Len(self.extra_block_filters)
    /\ (outcome # "running") => pc = "done"
    /\ (outcome = "IndexError") =>
          (self.with_extra_blocks /\ Len(self.extra_block_filters) < 4)
    /\ (pc = "done" /\ self.with_extra_blocks /\ Len(self.extra_block_filters) > 4) =>
          /\ outcome = "returned"
          /\ Len(result) = 6
          /\ Len(graph) = BackboneUnits + 8
          /\ \A k \in 1..4 :
                /\ graph[BackboneUnits + 2 * k - 1].num_filters = self.extra_block_filters[k][1]
                /\ graph[BackboneUnits + 2 * k].num_filters = self.extra_block_filters[k][2]

C10_Witness ==
    /\ pc = "done"
    /\ outcome = "IndexError"
    /\ Len(self.extra_block_filters) = 2
    /\ Len(graph) = 31
    /\ graph[31].name = self.prefix_name \o "conv7_2_extra2"
    /\ result = <<>>
====
